---- MODULE Spec2Model ----
(***************************************************************************)
(* A model of the keyboard piano: keyboard_piano.py (tone synthesis, WAV   *)
(* rendering, blocking playback, pynput listener) and piano.py (pygame     *)
(* auto-play followed by the interactive polling loop).                    *)
(*                                                                         *)
(* Units.  Durations are integers in milliseconds (0.3 s is 300), so that  *)
(* int(duration * sample_rate) is (ms * rate) \div 1000.  Frequencies are  *)
(* integers in hundredths of a hertz (261.63 Hz is 26163).  A sample       *)
(* int(32767 * sin(2 pi f i / r)) is kept as the term [freq, idx] that     *)
(* names it; the integer 0 of a silence is the term [freq |-> 0, idx |-> 0]*)
(*                                                                         *)
(* Characters are strings; "CR", "SP" and "NL" stand for '\r', ' ' and     *)
(* '\n', "LONG_S" for U+017F and "KELVIN" for U+212A.                      *)
(***************************************************************************)
EXTENDS Integers, Sequences, FiniteSets, TLC

VARIABLES
    \* generate_tone_samples called on its own
    tonePc, toneFreq, toneDur, toneRate, toneOut,
    \* generate_audio_file
    rPc, rSeq, rNoteDur, rRate, rLoop, rPos, all_samples, note_count,
    \* which audio backends can be imported
    hasWinsound, hasSounddevice,
    \* keyboard_piano.play_sequence
    pPc, pSeq, pPos, pClock, pLog,
    \* keyboard_piano.interactive_mode (pynput listener)
    lRunning, lClock, lKeys, lPlayed, lReturnedAt, lNoteEnd,
    \* symbol resolutions observed so far
    resolved,
    \* piano.py
    gPc, gPos, gQueue, gClock, running, gNoteStart, gNoteEnd, gPrevNoteEnd,
    gLastChar, gLastSounded, gWindowClosed, gPlayedAfterClose,
    gPlayedAfterStop

toneVars == <<tonePc, toneFreq, toneDur, toneRate, toneOut>>
renderVars == <<rPc, rSeq, rNoteDur, rRate, rLoop, rPos, all_samples, note_count>>
envVars == <<hasWinsound, hasSounddevice>>
playVars == <<pPc, pSeq, pPos, pClock, pLog>>
listenVars == <<lRunning, lClock, lKeys, lPlayed, lReturnedAt, lNoteEnd>>
resolveVars == <<resolved>>
pianoVars == <<gPc, gPos, gQueue, gClock, running, gNoteStart, gNoteEnd, gPrevNoteEnd,
               gLastChar, gLastSounded, gWindowClosed, gPlayedAfterClose,
               gPlayedAfterStop>>
vars == <<toneVars, renderVars, envVars, playVars, listenVars, resolveVars, pianoVars>>

----------------------------------------------------------------------------
(* Bounds of the model *)

\* sample rates tried by the tone synthesizer are 1..MaxRate
MaxRate == 50
\* sequences handed to generate_audio_file and play_sequence have at most this many symbols
MaxSeqLen == 3
\* key events delivered to the pynput listener
MaxEvents == 3
\* symbol resolutions recorded
MaxResolves == 2
\* events pending in the pygame queue between two polls
MaxQueue == 2

----------------------------------------------------------------------------
(* Characters and Python's str.lower / str.upper / str.isalpha on them *)

LowerLetters == <<"a", "s", "d", "f", "g", "h", "j", "k", "l",
                  "w", "e", "t", "y", "u", "o", "p", "x">>
UpperLetters == <<"A", "S", "D", "F", "G", "H", "J", "K", "L",
                  "W", "E", "T", "Y", "U", "O", "P", "X">>

Range(s) == {s[i] : i \in DOMAIN s}

AsciiChars == Range(LowerLetters) \cup Range(UpperLetters)
                \cup {";", "'", "CR", "SP", "NL", "1", "["}
Chars == AsciiChars \cup {"LONG_S", "KELVIN"}

\* str.lower(): 'K' (U+212A) lowers to 'k'; 'LONG_S' (U+017F) is already lower case
Lower(c) ==
    IF \E i \in DOMAIN UpperLetters : UpperLetters[i] = c
    THEN LowerLetters[CHOOSE i \in DOMAIN UpperLetters : UpperLetters[i] = c]
    ELSE IF c = "KELVIN" THEN "k" ELSE c

\* str.upper(): U+017F uppers to 'S'; U+212A is already upper case
Upper(c) ==
    IF \E i \in DOMAIN LowerLetters : LowerLetters[i] = c
    THEN UpperLetters[CHOOSE i \in DOMAIN LowerLetters : LowerLetters[i] = c]
    ELSE IF c = "LONG_S" THEN "S" ELSE c

IsAlpha(c) == c \in Range(LowerLetters) \cup Range(UpperLetters) \cup {"LONG_S", "KELVIN"}

----------------------------------------------------------------------------
(* keyboard_piano.py: the static tables *)

None == "None"

NOTE_FREQUENCIES ==
    [n \in {"C", "C#", "D", "D#", "E", "F", "F#", "G", "G#", "A", "A#", "B",
            "C5", "C#5", "D5", "D#5", "E5", "F5"} |->
        CASE n = "C"   -> 26163 [] n = "C#"  -> 27718 [] n = "D"   -> 29366
          [] n = "D#"  -> 31113 [] n = "E"   -> 32963 [] n = "F"   -> 34923
          [] n = "F#"  -> 36999 [] n = "G"   -> 39200 [] n = "G#"  -> 41530
          [] n = "A"   -> 44000 [] n = "A#"  -> 46616 [] n = "B"   -> 49388
          [] n = "C5"  -> 52325 [] n = "C#5" -> 55437 [] n = "D5"  -> 58733
          [] n = "D#5" -> 62225 [] n = "E5"  -> 65925 [] n = "F5"  -> 69846]

KEY_NOTE_MAP ==
    [k \in {"a", "s", "d", "f", "g", "h", "j", "k", "l", ";", "'",
            "w", "e", "t", "y", "u", "o", "p", "CR"} |->
        CASE k = "a" -> "C"   [] k = "s" -> "D"   [] k = "d" -> "E"
          [] k = "f" -> "F"   [] k = "g" -> "G"   [] k = "h" -> "A"
          [] k = "j" -> "B"   [] k = "k" -> "C5"  [] k = "l" -> "D5"
          [] k = ";" -> "E5"  [] k = "'" -> "F5"
          [] k = "w" -> "C#"  [] k = "e" -> "D#"  [] k = "t" -> "F#"
          [] k = "y" -> "G#"  [] k = "u" -> "A#"  [] k = "o" -> "C#5"
          [] k = "p" -> "D#5" [] k = "CR" -> None]

\* milliseconds in a second: the unit of every duration below
MsPerSec == 1000

----------------------------------------------------------------------------
(* keyboard_piano.py: generate_tone_samples *)

\* Python's round(n / d): to nearest, ties to the even integer
PyRound(n, d) ==
    LET q == n \div d
        r == n % d
    IN  IF 2 * r > d \/ (2 * r = d /\ q % 2 = 1) THEN q + 1 ELSE q

\* the frame count a rounding implementation would use
FramesRounded(ms, rate) == PyRound(ms * rate, MsPerSec)

\* frames = int(duration * sample_rate)
Frames(ms, rate) == (ms * rate) \div MsPerSec

\* the i-th sample of the sine wave (i from 0), as a term
Sample(freq, i) == [freq |-> freq, idx |-> i]

\* the sample of a silence: the integer 0
Zero == [freq |-> 0, idx |-> 0]

Silence(n) == [i \in 1..n |-> Zero]

generate_tone_samples(frequency, duration, sample_rate) ==
    [i \in 1..Frames(duration, sample_rate) |-> Sample(frequency, i - 1)]

\* every duration the two programs use: 0.08, 0.1, 0.18, 0.2, 0.22, 0.3 and 0.5 s
Durations == {80, 100, 180, 200, 220, 300, 500}

ToneFreqs == {NOTE_FREQUENCIES[n] : n \in {"C", "A", "F5"}}

ToneIdle ==
    /\ tonePc = "idle"
    /\ toneFreq = 0
    /\ toneDur = 0
    /\ toneRate = 0
    /\ toneOut = <<>>

ToneInit ==
    /\ tonePc = "call"
    /\ toneFreq \in ToneFreqs
    /\ toneDur \in Durations
    /\ toneRate \in 1..MaxRate
    /\ toneOut = <<>>

GenerateTone ==
    /\ tonePc = "call"
    /\ toneOut' = generate_tone_samples(toneFreq, toneDur, toneRate)
    /\ tonePc' = "returned"
    /\ UNCHANGED <<toneFreq, toneDur, toneRate>>
    /\ UNCHANGED <<renderVars, envVars, playVars, listenVars, resolveVars, pianoVars>>

----------------------------------------------------------------------------
(* keyboard_piano.py: symbol resolution and generate_audio_file *)

Unrecognized == "unrecognized"

\* a variant that looks the character up without lowering it
KpResolveCaseSensitive(char) ==
    IF char \in DOMAIN KEY_NOTE_MAP THEN KEY_NOTE_MAP[char] ELSE Unrecognized

\* "if char.lower() in KEY_NOTE_MAP: note = KEY_NOTE_MAP[char.lower()]":
\* a note name, None (the rest) or Unrecognized
KpResolve(char) ==
    IF Lower(char) \in DOMAIN KEY_NOTE_MAP THEN KEY_NOTE_MAP[Lower(char)] ELSE Unrecognized

\* note_duration=0.22, the default of generate_audio_file
RenderNoteDuration == 220
\* int(0.08 * sample_rate) frames of silence for ' '
SpaceSilence == 80
\* int(0.18 * sample_rate) frames of silence for '\n'
NewlineSilence == 180
\* "for loop in range(2)"
RenderLoops == 2
\* play_note(note, duration=0.3) and time.sleep(0.3) in play_sequence and on_press
PlayNoteDuration == 300

\* NOTE_FREQUENCIES[note] raises KeyError for a note the table does not hold
RenderRaises(char) ==
    /\ KpResolve(char) \notin {None, Unrecognized}
    /\ KpResolve(char) \notin DOMAIN NOTE_FREQUENCIES

\* a variant that gives an unbound symbol a default silence
RenderAppendDefaultSilence(buf, char, note_duration, sample_rate) ==
    LET note == KpResolve(char)
    IN  IF note # Unrecognized
        THEN IF note # None
             THEN buf \o generate_tone_samples(NOTE_FREQUENCIES[note], note_duration, sample_rate)
             ELSE buf \o Silence(Frames(note_duration, sample_rate))
        ELSE IF char = "SP" THEN buf \o Silence(Frames(SpaceSilence, sample_rate))
        ELSE IF char = "NL" THEN buf \o Silence(Frames(NewlineSilence, sample_rate))
        ELSE buf \o Silence(Frames(note_duration, sample_rate))

\* a variant that forgets the pause of a space
RenderAppendNoSpace(buf, char, note_duration, sample_rate) ==
    LET note == KpResolve(char)
    IN  IF note # Unrecognized
        THEN IF note # None
             THEN buf \o generate_tone_samples(NOTE_FREQUENCIES[note], note_duration, sample_rate)
             ELSE buf \o Silence(Frames(note_duration, sample_rate))
        ELSE IF char = "NL" THEN buf \o Silence(Frames(NewlineSilence, sample_rate))
        ELSE buf

\* the body of "for char in sequence": all_samples after one symbol
RenderAppend(buf, char, note_duration, sample_rate) ==
    LET note == KpResolve(char)
    IN  IF note # Unrecognized
        THEN IF note # None
             THEN buf \o generate_tone_samples(NOTE_FREQUENCIES[note], note_duration, sample_rate)
             ELSE buf \o Silence(Frames(note_duration, sample_rate))
        ELSE IF char = "SP" THEN buf \o Silence(Frames(SpaceSilence, sample_rate))
        ELSE IF char = "NL" THEN buf \o Silence(Frames(NewlineSilence, sample_rate))
        ELSE buf

BoundedSeqs(S, n) == UNION {[1..k -> S] : k \in 0..n}

SeqChars == {"d", "D", "CR", "SP", "NL", "x"}
RenderRates == {10, 25}
RenderNoteDurations == {RenderNoteDuration, PlayNoteDuration}

RenderIdle ==
    /\ rPc = "idle"
    /\ rSeq = <<>>
    /\ rNoteDur = 0
    /\ rRate = 0
    /\ rLoop = 0
    /\ rPos = 0
    /\ all_samples = <<>>
    /\ note_count = 0

RenderInit ==
    /\ rPc = "synth"
    /\ rSeq \in BoundedSeqs(SeqChars, MaxSeqLen)
    /\ rNoteDur \in RenderNoteDurations
    /\ rRate \in RenderRates
    /\ rLoop = 0
    /\ rPos = 1
    /\ all_samples = <<>>
    /\ note_count = 0

\* one iteration of "for char in sequence", inside "for loop in range(2)"
RenderSymbol ==
    /\ rPc = "synth"
    /\ rLoop < RenderLoops
    /\ rPos <= Len(rSeq)
    /\ IF RenderRaises(rSeq[rPos])
       THEN /\ rPc' = "raised"
            /\ UNCHANGED <<rLoop, rPos, all_samples, note_count>>
       ELSE /\ all_samples' = RenderAppend(all_samples, rSeq[rPos], rNoteDur, rRate)
            /\ note_count' = IF KpResolve(rSeq[rPos]) \notin {None, Unrecognized}
                             THEN note_count + 1 ELSE note_count
            /\ IF rPos = Len(rSeq)
               THEN rLoop' = rLoop + 1 /\ rPos' = 1
               ELSE rLoop' = rLoop /\ rPos' = rPos + 1
            /\ rPc' = "synth"
    /\ UNCHANGED <<rSeq, rNoteDur, rRate>>
    /\ UNCHANGED <<toneVars, envVars, playVars, listenVars, resolveVars, pianoVars>>

\* wave.open(...).writeframes(...): the file is written, or the write fails
RenderWrite ==
    /\ rPc = "synth"
    /\ rLoop = RenderLoops \/ rSeq = <<>>
    /\ \E ok \in BOOLEAN : rPc' = IF ok THEN "done" ELSE "ioerror"
    /\ UNCHANGED <<rSeq, rNoteDur, rRate, rLoop, rPos, all_samples, note_count>>
    /\ UNCHANGED <<toneVars, envVars, playVars, listenVars, resolveVars, pianoVars>>

----------------------------------------------------------------------------
(* keyboard_piano.py: play_note and play_sequence *)

\* sample_rate = 44100 of the sounddevice branch of play_note
SampleRate == 44100
\* winsound.Beep accepts 37..32767 Hz
BeepMinHz == 37
BeepMaxHz == 32767
\* time.sleep(0.1) for ' ' and time.sleep(0.2) for '\n' in play_sequence
SpacePause == 100
NewlinePause == 200

Outcome(elapsed, sounded, logged, escaped) ==
    [elapsed |-> elapsed, sounded |-> sounded, logged |-> logged, escaped |-> escaped]

\* play_note(note_name, duration) where winsound / sounddevice tell which modules
\* import, and fails tells whether the backend call raises.  The result: the time
\* the call takes, whether a tone sounded, whether a line was printed for a
\* failure, and whether an exception escapes the function.
play_note(note_name, duration, winsound, sounddevice, fails) ==
    IF note_name = None THEN Outcome(duration, FALSE, FALSE, FALSE)
    ELSE IF note_name \notin DOMAIN NOTE_FREQUENCIES THEN Outcome(0, FALSE, TRUE, FALSE)
    ELSE IF winsound
         THEN LET freq_int == NOTE_FREQUENCIES[note_name] \div 100
              IN  IF fails
                  \* "except Exception as e: print(...)": no sleep
                  THEN Outcome(0, FALSE, TRUE, FALSE)
                  ELSE IF BeepMinHz <= freq_int /\ freq_int <= BeepMaxHz
                       \* winsound.Beep(freq_int, int(duration * 1000)) blocks
                       THEN Outcome(Frames(duration, MsPerSec), TRUE, FALSE, FALSE)
                       \* PlaySound without SND_ASYNC blocks, then time.sleep(duration)
                       ELSE Outcome(2 * duration, TRUE, FALSE, FALSE)
    ELSE IF sounddevice
         THEN IF fails
              \* raised inside the "except ImportError" handler: the sibling
              \* "except Exception" does not catch it
              THEN Outcome(0, FALSE, FALSE, TRUE)
              \* sd.play(wave, sample_rate); sd.wait()
              ELSE Outcome((Frames(duration, SampleRate) * MsPerSec) \div SampleRate,
                           TRUE, FALSE, FALSE)
    \* neither imports: print the note and time.sleep(duration)
    ELSE Outcome(duration, FALSE, TRUE, FALSE)

EnvIdle ==
    /\ hasWinsound = FALSE
    /\ hasSounddevice = FALSE

EnvInit ==
    /\ hasWinsound \in BOOLEAN
    /\ hasSounddevice \in BOOLEAN

PlayIdle ==
    /\ pPc = "idle"
    /\ pSeq = <<>>
    /\ pPos = 0
    /\ pClock = 0
    /\ pLog = 0

PlayInit ==
    /\ pPc = "playing"
    /\ pSeq \in BoundedSeqs(SeqChars, MaxSeqLen)
    /\ pPos = 1
    /\ pClock = 0
    /\ pLog = 0

\* one iteration of "for char in sequence" of play_sequence
PlaySymbol ==
    /\ pPc = "playing"
    /\ pPos <= Len(pSeq)
    /\ \E fails \in BOOLEAN :
        LET char == pSeq[pPos]
            note == KpResolve(char)
            o == play_note(note, PlayNoteDuration, hasWinsound, hasSounddevice, fails)
        IN  IF note # Unrecognized /\ note # None
            THEN /\ pClock' = pClock + o.elapsed
                 /\ pLog' = IF o.logged THEN pLog + 1 ELSE pLog
                 /\ pPc' = IF o.escaped THEN "crashed" ELSE "playing"
            ELSE /\ pClock' = pClock + (IF note = None THEN PlayNoteDuration
                                        ELSE IF char = "SP" THEN SpacePause
                                        ELSE IF char = "NL" THEN NewlinePause
                                        ELSE 0)
                 /\ UNCHANGED <<pLog, pPc>>
    /\ pPos' = pPos + 1
    /\ UNCHANGED <<pSeq, envVars>>
    /\ UNCHANGED <<toneVars, renderVars, listenVars, resolveVars, pianoVars>>

\* the loop of play_sequence is over
PlayReturn ==
    /\ pPc = "playing"
    /\ pPos > Len(pSeq)
    /\ pPc' = "done"
    /\ UNCHANGED <<pSeq, pPos, pClock, pLog, envVars>>
    /\ UNCHANGED <<toneVars, renderVars, listenVars, resolveVars, pianoVars>>

----------------------------------------------------------------------------
(* keyboard_piano.py: on_press under the pynput listener of interactive_mode *)

\* keys with a character, and three special keys
ListenKeys == {"a", "A", "x", "Key.enter", "Key.esc", "Key.shift"}
SpecialKeys == {"Key.enter", "Key.esc", "Key.shift"}

\* what on_press makes of the key before the table lookup: the character looked
\* up, "stop" (return False) or "ignore" (return)
OnPressChar(key) ==
    IF key \notin SpecialKeys THEN Lower(key)
    ELSE IF key = "Key.enter" THEN "CR"
    ELSE IF key = "Key.esc" THEN "stop"
    ELSE "ignore"

\* "if key_char in KEY_NOTE_MAP: note = KEY_NOTE_MAP[key_char]"
OnPressResolve(key) ==
    LET key_char == OnPressChar(key)
    IN  IF key_char \in DOMAIN KEY_NOTE_MAP THEN KEY_NOTE_MAP[key_char] ELSE Unrecognized

\* the note on_press plays for the key ("if note:"), or None when it plays nothing
OnPressNote(key) ==
    IF OnPressResolve(key) = Unrecognized THEN None ELSE OnPressResolve(key)

ListenIdle ==
    /\ lRunning = FALSE
    /\ lClock = 0
    /\ lKeys = <<>>
    /\ lPlayed = FALSE
    /\ lReturnedAt = 0
    /\ lNoteEnd = 0

ListenInit ==
    /\ lRunning = TRUE
    /\ lClock = 0
    /\ lKeys = <<>>
    /\ lPlayed = FALSE
    /\ lReturnedAt = 0
    /\ lNoteEnd = 0

\* the listener delivers one key press to on_press; the listener stops when
\* on_press returns False, and when an exception leaves on_press
OnPress(key) ==
    /\ lRunning
    /\ Len(lKeys) < MaxEvents
    /\ lKeys' = Append(lKeys, key)
    /\ \E fails \in BOOLEAN :
        LET note == OnPressNote(key)
            o == play_note(note, PlayNoteDuration, hasWinsound, hasSounddevice, fails)
        IN  IF note # None
            THEN /\ lClock' = lClock + o.elapsed
                 /\ lPlayed' = o.sounded
                 /\ lNoteEnd' = IF o.sounded THEN lClock + PlayNoteDuration ELSE lNoteEnd
                 /\ lReturnedAt' = lClock + o.elapsed
                 /\ lRunning' = ~o.escaped
            ELSE /\ lPlayed' = FALSE
                 /\ lReturnedAt' = lClock
                 /\ lRunning' = (OnPressChar(key) # "stop")
                 /\ UNCHANGED <<lClock, lNoteEnd>>
    /\ UNCHANGED envVars
    /\ UNCHANGED <<toneVars, renderVars, playVars, resolveVars, pianoVars>>

----------------------------------------------------------------------------
(* piano.py: tables, char_to_key, the song *)

SAMPLE_RATE == 44100
DURATION == 500
NOTE_DURATION == 300

\* generate_tone: a Sound of int(sample_rate * duration) stereo frames
generate_tone(frequency, duration, sample_rate) ==
    [freq |-> frequency, frames |-> Frames(duration, sample_rate)]

\* how long a Sound plays on the mixer, in ms
SoundMs(sound) == (sound.frames * MsPerSec) \div SAMPLE_RATE

key_freq_map ==
    [k \in {"K_a", "K_s", "K_d", "K_f", "K_g", "K_h", "K_j", "K_k", "K_l",
            "K_SEMICOLON", "K_QUOTE", "K_RETURN", "K_w", "K_e", "K_t", "K_y",
            "K_u", "K_o", "K_p", "K_LEFTBRACKET", "K_RIGHTBRACKET"} |->
        CASE k = "K_a" -> 26163 [] k = "K_s" -> 29366 [] k = "K_d" -> 32963
          [] k = "K_f" -> 34923 [] k = "K_g" -> 39200 [] k = "K_h" -> 44000
          [] k = "K_j" -> 49388 [] k = "K_k" -> 52325 [] k = "K_l" -> 58733
          [] k = "K_SEMICOLON" -> 65925 [] k = "K_QUOTE" -> 69846
          [] k = "K_RETURN" -> 78399
          [] k = "K_w" -> 27718 [] k = "K_e" -> 31113 [] k = "K_t" -> 36999
          [] k = "K_y" -> 41530 [] k = "K_u" -> 46616 [] k = "K_o" -> 55437
          [] k = "K_p" -> 62225 [] k = "K_LEFTBRACKET" -> 73999
          [] k = "K_RIGHTBRACKET" -> 78399]

\* sounds = {key: generate_tone(freq) for key, freq in key_freq_map.items()}
sounds == [k \in DOMAIN key_freq_map |-> generate_tone(key_freq_map[k], DURATION, SAMPLE_RATE)]

char_map ==
    [c \in {"D", "F", "G", "H", "T", "K", ";", "L", "J", "Y", "U", "'", "CR"} |->
        CASE c = "D" -> "K_d" [] c = "F" -> "K_f" [] c = "G" -> "K_g"
          [] c = "H" -> "K_h" [] c = "T" -> "K_t" [] c = "K" -> "K_k"
          [] c = ";" -> "K_SEMICOLON" [] c = "L" -> "K_l" [] c = "J" -> "K_j"
          [] c = "Y" -> "K_y" [] c = "U" -> "K_u" [] c = "'" -> "K_QUOTE"
          [] c = "CR" -> "K_RETURN"]

\* char_map.get(char.upper() if char.isalpha() else char)
char_to_key(char) ==
    LET c == IF IsAlpha(char) THEN Upper(char) ELSE char
    IN  IF c \in DOMAIN char_map THEN char_map[c] ELSE None

\* what play_sequence of piano.py makes of a symbol that is neither ' ' nor '\n':
\* the key whose sound it plays, "rest", or Unrecognized
PianoResolve(char) ==
    LET key == char_to_key(char)
    IN  IF key # None /\ key \in DOMAIN sounds THEN key
        ELSE IF key = "K_RETURN" THEN "rest"
        ELSE Unrecognized

song_sequence ==
    <<"D", "SP", "F", "SP", "G", "SP", "H", "SP", "G", "SP", "T", "SP", "G", "SP", "H", "SP", "K", "SP", ";", "SP", "G", "NL">>
    \o <<"NL">>
    \o <<";", "SP", ";", "SP", "L", "SP", "K", "SP", "H", "NL">>
    \o <<"NL">>
    \o <<"H", "SP", "J", "SP", "K", "SP", "L", "SP", "K", "SP", "H", "SP", "U", "SP", "J", "NL">>
    \o <<"NL">>
    \o <<"J", "SP", "K", "SP", "J", "SP", "G", "SP", "Y", "SP", "H", "SP", "NL">>
    \o <<"NL">>
    \o <<"U", "SP", "J", "SP", "K", "SP", "L", "SP", ";", "SP", "L", "SP", "K", "SP", "J", "SP", "H", "SP", "L", "SP", "NL">>
    \o <<"NL">>
    \o <<"D", "SP", "F", "SP", "G", "SP", "H", "SP", "G", "SP", "T", "SP", "G", "SP", "H", "SP", "K", "SP", ";", "SP", "G", "SP", "NL">>
    \o <<"NL">>
    \o <<";", "SP", ";", "SP", "L", "SP", "K", "SP", "H", "SP", "NL">>
    \o <<"NL">>
    \o <<"H", "SP", "J", "SP", "K", "SP", "L", "SP", "K", "SP", "J", "SP", "K", "SP", "J", "NL">>
    \o <<"NL">>
    \o <<"H", "SP", "Y", "SP", "G", "SP", "H", "SP", "K", "SP", ";", "SP", "CR", "NL">>
    \o <<"NL">>
    \o <<"G", "SP", "H", "SP", "'", "SP", "J", "SP", "K">>

----------------------------------------------------------------------------
(* The three resolvers, observed *)

ResolveChars == {"d", "D", "k", "K", "s", "S", "x", "X", ";", "CR", "SP", "1",
                 "LONG_S", "KELVIN"}

ResolveIdle == resolved = <<>>

ResolveInit == resolved = <<>>

\* "if char.lower() in KEY_NOTE_MAP" of generate_audio_file and play_sequence
ResolveSymbol(c) ==
    /\ Len(resolved) < MaxResolves
    /\ resolved' = Append(resolved, [by |-> "keyboard_piano", sym |-> c, result |-> KpResolve(c)])
    /\ UNCHANGED <<toneVars, renderVars, envVars, playVars, listenVars, pianoVars>>

\* the lookup of on_press for a key with the character c
ResolveKey(c) ==
    /\ Len(resolved) < MaxResolves
    /\ resolved' = Append(resolved, [by |-> "on_press", sym |-> c, result |-> OnPressResolve(c)])
    /\ UNCHANGED <<toneVars, renderVars, envVars, playVars, listenVars, pianoVars>>

\* char_to_key and "if key and key in sounds" of piano.py
ResolveChar(c) ==
    /\ Len(resolved) < MaxResolves
    /\ resolved' = Append(resolved, [by |-> "char_to_key", sym |-> c, result |-> PianoResolve(c)])
    /\ UNCHANGED <<toneVars, renderVars, envVars, playVars, listenVars, pianoVars>>

----------------------------------------------------------------------------
(* piano.py: auto-play of the song, then the interactive loop *)

QuitEvent == [type |-> "QUIT", key |-> None]
KeyDown(k) == [type |-> "KEYDOWN", key |-> k]
KeyUp(k) == [type |-> "KEYUP", key |-> k]

\* the events the window can receive: close, ESC, a key with a sound, a key
\* without one, a key release
Events == {QuitEvent, KeyDown("K_ESCAPE"), KeyDown("K_a"), KeyDown("K_z"), KeyUp("K_a")}

\* the events on which both loops stop
IsStop(e) == e.type = "QUIT" \/ (e.type = "KEYDOWN" /\ e.key = "K_ESCAPE")

\* "elif event.key in sounds: sounds[event.key].play()" of the interactive loop
PlaysSound(e) == e.type = "KEYDOWN" /\ e.key # "K_ESCAPE" /\ e.key \in DOMAIN sounds

\* the time play_sequence of piano.py spends on a symbol after polling the events
SymbolPause(char) ==
    IF char = "SP" THEN SpacePause
    ELSE IF char = "NL" THEN NewlinePause
    ELSE IF PianoResolve(char) # Unrecognized THEN NOTE_DURATION
    ELSE 0

\* whether play_sequence of piano.py starts a sound for the symbol
SymbolSounds(char) ==
    /\ char \notin {"SP", "NL"}
    /\ PianoResolve(char) \notin {"rest", Unrecognized}

PianoIdle ==
    /\ gPc = "idle"
    /\ gPos = 0
    /\ gQueue = <<>>
    /\ gClock = 0
    /\ running = FALSE
    /\ gNoteStart = 0
    /\ gNoteEnd = 0
    /\ gPrevNoteEnd = 0
    /\ gLastChar = None
    /\ gLastSounded = FALSE
    /\ gWindowClosed = FALSE
    /\ gPlayedAfterClose = FALSE
    /\ gPlayedAfterStop = FALSE

PianoInit ==
    /\ gPc = "autoplay"
    /\ gPos = 1
    /\ gQueue = <<>>
    /\ gClock = 0
    /\ running = FALSE
    /\ gNoteStart = 0
    /\ gNoteEnd = 0
    /\ gPrevNoteEnd = 0
    /\ gLastChar = None
    /\ gLastSounded = FALSE
    /\ gWindowClosed = FALSE
    /\ gPlayedAfterClose = FALSE
    /\ gPlayedAfterStop = FALSE

\* the window system queues an event
PostEvent(e) ==
    /\ gPc \in {"autoplay", "interactive"}
    /\ Len(gQueue) < MaxQueue
    /\ gQueue' = Append(gQueue, e)
    /\ UNCHANGED <<gPc, gPos, gClock, running, gNoteStart, gNoteEnd, gPrevNoteEnd,
                   gLastChar, gLastSounded, gWindowClosed, gPlayedAfterClose,
                   gPlayedAfterStop>>
    /\ UNCHANGED <<toneVars, renderVars, envVars, playVars, listenVars, resolveVars>>

\* one iteration of "for char in song_sequence": pygame.event.get() empties the
\* queue; a QUIT or an ESC makes play_sequence return False, and the caller drops
\* the value and goes on to "running = True"
AutoPlayStep ==
    /\ gPc = "autoplay"
    /\ gPos <= Len(song_sequence)
    /\ gQueue' = <<>>
    /\ IF \E i \in DOMAIN gQueue : IsStop(gQueue[i])
       THEN LET first == CHOOSE i \in DOMAIN gQueue :
                            /\ IsStop(gQueue[i])
                            /\ \A j \in 1..(i - 1) : ~IsStop(gQueue[j])
            IN  /\ gWindowClosed' = (gQueue[first].type = "QUIT")
                /\ gPc' = "interactive"
                /\ running' = TRUE
                /\ UNCHANGED <<gPos, gClock, gNoteStart, gNoteEnd, gPrevNoteEnd,
                               gLastChar, gLastSounded>>
       ELSE LET char == song_sequence[gPos]
            IN  /\ gLastChar' = char
                /\ gLastSounded' = SymbolSounds(char)
                /\ IF SymbolSounds(char)
                   THEN /\ gPrevNoteEnd' = gNoteEnd
                        /\ gNoteStart' = gClock
                        /\ gNoteEnd' = gClock + SoundMs(sounds[char_to_key(char)])
                   ELSE UNCHANGED <<gNoteStart, gNoteEnd, gPrevNoteEnd>>
                /\ gClock' = gClock + SymbolPause(char)
                /\ gPos' = gPos + 1
                /\ IF gPos = Len(song_sequence)
                   THEN gPc' = "interactive" /\ running' = TRUE
                   ELSE UNCHANGED <<gPc, running>>
                /\ UNCHANGED gWindowClosed
    /\ UNCHANGED <<gPlayedAfterClose, gPlayedAfterStop>>
    /\ UNCHANGED <<toneVars, renderVars, envVars, playVars, listenVars, resolveVars>>

\* one iteration of "while running" that finds events: every event of the batch
\* is handled, then the loop condition is tested and pygame.quit() follows
InteractivePoll ==
    /\ gPc = "interactive"
    /\ running
    /\ gQueue # <<>>
    /\ gQueue' = <<>>
    /\ LET stops == {i \in DOMAIN gQueue : IsStop(gQueue[i])}
           plays == {i \in DOMAIN gQueue : PlaysSound(gQueue[i])}
       IN  /\ running' = (stops = {})
           /\ gPc' = IF stops = {} THEN "interactive" ELSE "quit"
           /\ gPlayedAfterStop' = (gPlayedAfterStop \/ \E i \in stops : \E j \in plays : j > i)
           /\ gPlayedAfterClose' = (gPlayedAfterClose \/ (gWindowClosed /\ plays # {}))
    /\ UNCHANGED <<gPos, gClock, gNoteStart, gNoteEnd, gPrevNoteEnd, gLastChar,
                   gLastSounded, gWindowClosed>>
    /\ UNCHANGED <<toneVars, renderVars, envVars, playVars, listenVars, resolveVars>>

----------------------------------------------------------------------------------------------------------------------------------------
(* Specifications: one per entry point *)

InitTone ==
    ToneInit /\ RenderIdle /\ EnvIdle /\ PlayIdle /\ ListenIdle /\ ResolveIdle /\ PianoIdle

SpecTone == InitTone /\ [][GenerateTone]_vars

InitRender ==
    ToneIdle /\ RenderInit /\ EnvIdle /\ PlayIdle /\ ListenIdle /\ ResolveIdle /\ PianoIdle

NextRender ==
    \/ RenderSymbol
    \/ RenderWrite

SpecRender == InitRender /\ [][NextRender]_vars

InitPlay ==
    ToneIdle /\ RenderIdle /\ EnvInit /\ PlayInit /\ ListenIdle /\ ResolveIdle /\ PianoIdle

NextPlay ==
    \/ PlaySymbol
    \/ PlayReturn

SpecPlay == InitPlay /\ [][NextPlay]_vars

InitListen ==
    ToneIdle /\ RenderIdle /\ EnvInit /\ PlayIdle /\ ListenInit /\ ResolveIdle /\ PianoIdle

NextListen == \E key \in ListenKeys : OnPress(key)

SpecListen == InitListen /\ [][NextListen]_vars

InitResolve ==
    ToneIdle /\ RenderIdle /\ EnvIdle /\ PlayIdle /\ ListenIdle /\ ResolveInit /\ PianoIdle

NextResolve ==
    \/ \E c \in ResolveChars : ResolveSymbol(c)
    \/ \E c \in ResolveChars : ResolveKey(c)
    \/ \E c \in ResolveChars : ResolveChar(c)

SpecResolve == InitResolve /\ [][NextResolve]_vars

InitPiano ==
    ToneIdle /\ RenderIdle /\ EnvIdle /\ PlayIdle /\ ListenIdle /\ ResolveIdle /\ PianoInit

NextPiano ==
    \/ \E e \in Events : PostEvent(e)
    \/ AutoPlayStep
    \/ InteractivePoll

SpecPiano == InitPiano /\ [][NextPiano]_vars

----------------------------------------------------------------------------
(* Properties *)

Abs(x) == IF x < 0 THEN 0 - x ELSE x

SymbolMs(char, note_duration) ==
    IF KpResolve(char) # Unrecognized THEN note_duration
    ELSE IF char = "SP" THEN SpaceSilence
    ELSE IF char = "NL" THEN NewlineSilence
    ELSE 0

RECURSIVE SumMs(_, _)
SumMs(seq, note_duration) ==
    IF seq = <<>> THEN 0
    ELSE SymbolMs(Head(seq), note_duration) + SumMs(Tail(seq), note_duration)

\* C2 as stated: the rendered buffer lasts the sum of the durations of the symbols
\* of the sequence, within one sample per symbol.
RenderDurationIsSymbolSum ==
    rPc = "done" =>
        Abs(Len(all_samples) * MsPerSec - SumMs(rSeq, rNoteDur) * rRate)
            <= Len(rSeq) * MsPerSec

\* C2 amended: the rendered buffer lasts twice the sum of the durations of the
\* symbols (the sequence is rendered two times over), never longer, and shorter by
\* less than one sample per rendered symbol.
RenderDurationIsTwiceSymbolSum ==
    rPc = "done" =>
        LET short == RenderLoops * SumMs(rSeq, rNoteDur) * rRate - Len(all_samples) * MsPerSec
        IN  /\ 0 <= short
            /\ short <= RenderLoops * Len(rSeq) * MsPerSec
            /\ rSeq # <<>> => short < RenderLoops * Len(rSeq) * MsPerSec

\* C2 witness: two notes separated by one space have been rendered to the end.
RenderTwoNotesAndSpace ==
    /\ rPc = "done"
    /\ rSeq = <<"d", "SP", "D">>
    /\ Len(all_samples) > 0

\* a symbol that is neither a bound key, a space nor a newline
IsUnboundSymbol(char) ==
    /\ Lower(char) \notin DOMAIN KEY_NOTE_MAP
    /\ char \notin {"SP", "NL"}

\* C7: the synthesis loop of generate_audio_file never raises, and a step that
\* processes a symbol that is neither a bound key, a space nor a newline leaves
\* all_samples as it was.
UnboundSymbolLeavesBuffer ==
    [][/\ rPc' # "raised"
       /\ (/\ rPc = "synth"
           /\ <<rLoop, rPos>>' # <<rLoop, rPos>>
           /\ IsUnboundSymbol(rSeq[rPos])) => all_samples' = all_samples]_vars

\* C7 witness: a sequence holding an unbound symbol next to a note was rendered to
\* the end, and the buffer holds the notes.
RenderSkippedUnbound ==
    /\ rPc = "done"
    /\ \E i \in DOMAIN rSeq : IsUnboundSymbol(rSeq[i])
    /\ note_count > 0
    /\ Len(all_samples) > 0

\* the time play_sequence gives a symbol: 0.3 s for a note or a rest, 0.1 s for a
\* space, 0.2 s for a newline
PlaySymbolMs(char) ==
    IF KpResolve(char) # Unrecognized THEN PlayNoteDuration
    ELSE IF char = "SP" THEN SpacePause
    ELSE IF char = "NL" THEN NewlinePause
    ELSE 0

RECURSIVE SumPlay(_)
SumPlay(seq) ==
    IF seq = <<>> THEN 0 ELSE PlaySymbolMs(Head(seq)) + SumPlay(Tail(seq))

SumPlayMs == SumPlay(pSeq)

\* C4 as stated: play_sequence always runs to its end, and takes the sum of the
\* durations of its symbols whatever the audio backend does.
PlayTimingPreserved ==
    /\ pPc # "crashed"
    /\ pPc = "done" => pClock = SumPlayMs

\* C6 as stated: when on_press has started a note, it returns before the note has
\* finished sounding.
OnPressDoesNotBlock == lPlayed => lReturnedAt < lNoteEnd

\* whether two recorded resolutions are of the same resolver and of symbols that
\* differ at most in case
SameUpToCase(a, b) ==
    /\ a.by = b.by
    /\ b.sym \in {a.sym, Lower(a.sym), Upper(a.sym)}

\* C8 as stated: for every character c, resolving c, c.lower() and c.upper() gives
\* the same result, whatever was resolved before.
ResolutionIgnoresCase ==
    \A i, j \in DOMAIN resolved :
        SameUpToCase(resolved[i], resolved[j]) => resolved[i].result = resolved[j].result

\* C8 amended: for every ASCII character c, resolving c, c.lower() and c.upper()
\* gives the same result, whatever was resolved before.
ResolutionIgnoresAsciiCase ==
    \A i, j \in DOMAIN resolved :
        (resolved[i].sym \in AsciiChars /\ SameUpToCase(resolved[i], resolved[j]))
            => resolved[i].result = resolved[j].result

\* C8 witness: a letter and its upper case were both resolved by the same resolver,
\* to a note.
ResolvedBothCases ==
    \E i, j \in DOMAIN resolved :
        /\ i < j
        /\ resolved[i].by = resolved[j].by
        /\ resolved[i].sym \in AsciiChars
        /\ resolved[j].sym = Upper(resolved[i].sym)
        /\ resolved[j].sym # resolved[i].sym
        /\ resolved[i].result \notin {None, Unrecognized, "rest"}
        /\ resolved[j].result = resolved[i].result

\* C3 as stated: in the interactive loop, no key event that follows the quit key or
\* the window-close event plays a note.
NothingPlayedAfterStop == ~gPlayedAfterStop

\* C5 as stated: during auto-play a note starts only when the note before it has
\* finished sounding.
AutoPlayNoOverlap == gNoteStart >= gPrevNoteEnd

\* C9 as stated: processing '\r' in play_sequence of piano.py plays no sound.
EnterIsSilentRest == gLastChar = "CR" => ~gLastSounded

\* C10 as stated: once the window was closed during auto-play, no note is played
\* any more, and the program is past pygame.quit() without waiting for an event.
WindowCloseExits ==
    gWindowClosed =>
        /\ ~gPlayedAfterClose
        /\ gQueue = <<>> => gPc = "quit"

====
